---- MODULE Spec2Model ----
(***************************************************************************)
(* A model of run.py, the developer script of pympler that finds source    *)
(* files, clears build directories and dispatches the pychecker, Sphinx    *)
(* and unit-test runners through blocking subprocesses.                    *)
(*                                                                         *)
(* File names and relative paths that the script inspects character by     *)
(* character (os.path.basename, os.path.join, re.match) are sequences of   *)
(* one-character strings; everything else is a plain string.               *)
(***************************************************************************)
EXTENDS Integers, Sequences, FiniteSets, TLC

VARIABLES
    \* ---- get_files called on its own (SpecFiles)
    locations,   \* the root list handed to get_files
    pattern,     \* the compiled pattern, a sequence of tokens
    listing,     \* the order in which the file system lists a directory
    res,         \* the list get_files returned
    fpc,         \* "call" before get_files ran, "returned" after
    \* ---- dir_clear called on its own (SpecDir)
    dfs,         \* the documentation tree: a set of [path, kind] nodes
    dpath,       \* the path handed to dir_clear
    dpc,         \* "mkdir", "rm", "returned", or "off"
    dcalls,      \* how many calls of dir_clear have been started
    dfailed,     \* some subprocess of dir_clear returned non-zero
    \* ---- the script, main() (Spec)
    python,            \* the major version of the interpreter running it
    sphinx_installed,  \* whether sphinx-build is on the search path
    argv,              \* the command line: flags, -v, --paper, positionals
    options,           \* the record parse_args returned
    args,              \* the leftover positional arguments
    pc,                \* where main() or the runner it called stands
    task,              \* the index into TaskOrder of the task at hand
    sources,           \* run_pychecker: the files get_files returned
    idx,               \* the loop index of the runner at hand
    step,              \* run_sphinx: the next of a builder's five commands
    saved_cwd,         \* run_sphinx: cwd = os.getcwd() at entry
    cwd,               \* the working directory of the process
    environ,           \* os.environ['PYTHONPATH'], "" while unset
    running,           \* the subprocesses that have not terminated yet
    spawned,           \* every subprocess started so far, in order
    child_failed,      \* some subprocess returned a non-zero status
    calls,             \* every runner called so far, with its arguments
    out,               \* the lines printed so far
    exc,               \* the uncaught exception, "none" while there is none
    exit               \* the exit status of the script, -1 while it runs

fvars == <<locations, pattern, listing, res, fpc>>
dvars == <<dfs, dpath, dpc, dcalls, dfailed>>
mvars ==
    <<python, sphinx_installed, argv, options, args, pc, task, sources, idx,
      step, saved_cwd, cwd, environ, running, spawned, child_failed, calls,
      out, exc, exit>>

vars == <<fvars, dvars, mvars>>

\* ------------------------------------------------------------------ bounds

\* The longest root list handed to get_files.
MaxRoots == 2

\* ------------------------------------------------------------ characters

SEP == "/"
NL == "\n"

C_test == <<"t", "e", "s", "t">>
C_sub == <<"s", "u", "b">>
C_pympler == <<"p", "y", "m", "p", "l", "e", "r">>
C_pkg == <<"p", "k", "g">>
C_nosuch == <<"n", "o", "s", "u", "c", "h">>
C_build == <<"b", "u", "i", "l", "d">>
C_doctrees == <<"d", "o", "c", "t", "r", "e", "e", "s">>
C_html == <<"h", "t", "m", "l">>
C_star == <<"*">>
C_doctest == <<"d", "o", "c", "t", "e", "s", "t">>
C_latex == <<"l", "a", "t", "e", "x">>
C_changes == <<"c", "h", "a", "n", "g", "e", "s">>
C_linkcheck == <<"l", "i", "n", "k", "c", "h", "e", "c", "k">>
C_runtest_py == <<"r", "u", "n", "t", "e", "s", "t", ".", "p", "y">>
C_test_a_py == <<"t", "e", "s", "t", "_", "a", ".", "p", "y">>
C_test_b_py == <<"t", "e", "s", "t", "_", "b", ".", "p", "y">>
C_helper_py == <<"h", "e", "l", "p", "e", "r", ".", "p", "y">>
C_a_pyc == <<"a", ".", "p", "y", "c">>
C_m_py == <<"m", ".", "p", "y">>
C_n_py_nl == <<"n", ".", "p", "y", NL>>

\* ---------------------------------------------------------------- os.path

\* os.path.join(a, b) for a relative b.
join(a, b) ==
    IF a = <<>> \/ a[Len(a)] = SEP THEN a \o b ELSE a \o <<SEP>> \o b

\* The index of the last separator of p, 0 when there is none.
LastSep(p) ==
    LET at == {i \in 1..Len(p) : p[i] = SEP}
    IN  IF at = {} THEN 0 ELSE CHOOSE i \in at : \A j \in at : j <= i

\* os.path.basename(p): what follows the last separator.
basename(p) == SubSeq(p, LastSep(p) + 1, Len(p))

\* ------------------------------------------------------------ file system

\* The project tree the script is run in: one record per directory entry.
Entry(d, n, k) == [dir |-> d, name |-> n, kind |-> k]

FS ==
    { Entry(<<>>, C_test, "dir"),
      Entry(C_test, C_test_a_py, "file"),
      Entry(C_test, C_helper_py, "file"),
      Entry(C_test, C_a_pyc, "file"),
      Entry(C_test, C_sub, "dir"),
      Entry(join(C_test, C_sub), C_test_b_py, "file"),
      Entry(<<>>, C_pympler, "dir"),
      Entry(C_pympler, C_m_py, "file"),
      Entry(C_pympler, C_a_pyc, "file"),
      Entry(C_pympler, C_n_py_nl, "file"),
      Entry(<<>>, C_pkg, "dir"),
      Entry(C_pkg, C_helper_py, "file") }

EntryPath(e) == join(e.dir, e.name)

isfile(p) == \E e \in FS : e.kind = "file" /\ EntryPath(e) = p
isdir(p) == \E e \in FS : e.kind = "dir" /\ EntryPath(e) = p

\* Directory listings come in no guaranteed order: two orders are modelled.
NameOrder ==
    <<C_helper_py, C_test_a_py, C_a_pyc, C_sub, C_test_b_py, C_m_py,
      C_n_py_nl, C_test, C_pympler, C_pkg>>

Reverse(s) == [i \in 1..Len(s) |-> s[Len(s) + 1 - i]]

Orders == {"forward", "backward"}

\* os.listdir(d) restricted to one kind, in the listing order.
Listed(d, k, order) ==
    LET names == {e.name : e \in {f \in FS : f.dir = d /\ f.kind = k}}
        In(n) == n \in names
    IN  SelectSeq(IF order = "forward" THEN NameOrder ELSE Reverse(NameOrder), In)

\* ----------------------------------------------------------------- re

\* A compiled pattern is a sequence of tokens <<kind, character>>.
Chr(c) == <<"char", c>>
Dot == <<"dot", "">>
NotNlStar == <<"notnl_star", "">>
Bol == <<"bol", "">>
Eol == <<"eol", "">>

\* '^test_[^\n]*.py$', the default pattern of get_files.
PatTest ==
    <<Bol, Chr("t"), Chr("e"), Chr("s"), Chr("t"), Chr("_"), NotNlStar, Dot,
      Chr("p"), Chr("y"), Eol>>
\* '[^\n]*.py$', the pattern run_pychecker passes.
PatPy == <<NotNlStar, Dot, Chr("p"), Chr("y"), Eol>>
\* '[^\n]*.py', a caller's pattern without the closing anchor.
PatPyOpen == <<NotNlStar, Dot, Chr("p"), Chr("y")>>
\* 'test', a caller's literal pattern.
PatLiteral == <<Chr("t"), Chr("e"), Chr("s"), Chr("t")>>

Patterns == {PatTest, PatPy, PatPyOpen, PatLiteral}

\* '$' matches at the end of the string and just before a final newline.
AtEol(s, i) == i = Len(s) \/ (i = Len(s) - 1 /\ s[Len(s)] = NL)

\* The positions up to which [^\n]* can consume s from position i.
StarEnds(s, i) == {j \in i..Len(s) : \A m \in (i + 1)..j : s[m] # NL}

\* The positions at which a match of pat[k..] that starts at position i of s
\* can end (positions count the characters consumed).
RECURSIVE MatchEnds(_, _, _, _)
MatchEnds(pat, k, s, i) ==
    IF k > Len(pat) THEN {i}
    ELSE LET kind == pat[k][1]
             c == pat[k][2]
         IN  CASE kind = "bol" ->
                    IF i = 0 THEN MatchEnds(pat, k + 1, s, i) ELSE {}
               [] kind = "eol" ->
                    IF AtEol(s, i) THEN MatchEnds(pat, k + 1, s, i) ELSE {}
               [] kind = "char" ->
                    IF i < Len(s) /\ s[i + 1] = c
                    THEN MatchEnds(pat, k + 1, s, i + 1) ELSE {}
               [] kind = "dot" ->
                    IF i < Len(s) /\ s[i + 1] # NL
                    THEN MatchEnds(pat, k + 1, s, i + 1) ELSE {}
               [] kind = "notnl_star" ->
                    UNION {MatchEnds(pat, k + 1, s, j) : j \in StarEnds(s, i)}

\* pat.match(s): a match that starts at the first character.
match(pat, s) == MatchEnds(pat, 1, s, 0) # {}

\* The whole of s, first to last character, is matched by pat.
fullmatch(pat, s) == Len(s) \in MatchEnds(pat, 1, s, 0)

\* -------------------------------------------------------------- get_files

Concat(ss) ==
    LET RECURSIVE cat(_)
        cat(i) == IF i > Len(ss) THEN <<>> ELSE ss[i] \o cat(i + 1)
    IN  cat(1)

\* The test on a root that is a file: its base name against the pattern.
FileRootMatchesAlways(pat, location) == TRUE
FileRootMatches(pat, location) == match(pat, basename(location))

\* What a root that is a file adds to the result.
FileRootResultBasename(pat, location) ==
    IF FileRootMatches(pat, location) THEN <<basename(location)>> ELSE <<>>
FileRootResult(pat, location) ==
    IF FileRootMatches(pat, location) THEN <<location>> ELSE <<>>

\* for root, dirs, files in os.walk(location): the matching files of root,
\* then those of its subdirectories, top-down.
RECURSIVE WalkResult(_, _, _)
WalkResult(pat, root, order) ==
    LET files == Listed(root, "file", order)
        dirs == Listed(root, "dir", order)
        Hit(fn) == match(pat, fn)
        here == SelectSeq(files, Hit)
    IN  [i \in 1..Len(here) |-> join(root, here[i])]
        \o Concat([i \in 1..Len(dirs) |->
                      WalkResult(pat, join(root, dirs[i]), order)])

\* What one root adds to the result.
LocationResult(pat, location, order) ==
    IF isfile(location) THEN FileRootResult(pat, location)
    ELSE IF isdir(location) THEN WalkResult(pat, location, order)
    ELSE <<>>

get_files(locs, pat, order) ==
    Concat([i \in 1..Len(locs) |-> LocationResult(pat, locs[i], order)])

\* ------------------------------------------------------------- commands

\* A word of a command line: a plain string, or a string kept as characters.
S(s) == [lit |-> s, chars |-> <<>>]
W(cs) == [lit |-> "", chars |-> cs]

\* dir_clear(path): the two command lines it spawns, in order.  The second
\* word of rm is the joined path itself: _spawn hands the words to the
\* program without a shell, so nothing expands the '*'.
dir_clear(path) ==
    << <<S("/bin/mkdir"), S("-p"), W(path)>>,
       <<S("/bin/rm"), S("-rf"), W(join(path, C_star))>> >>

\* os.path.dirname(p): what precedes the last separator.
dirname(p) == SubSeq(p, 1, LastSep(p) - 1)

\* p and its ancestors, as mkdir -p creates them.
Ancestors(p) == {SubSeq(p, 1, i - 1) : i \in {j \in 1..Len(p) : p[j] = SEP}} \cup {p}

\* n is t or lies below t.
Under(n, t) ==
    n = t \/ (Len(n) > Len(t) /\ SubSeq(n, 1, Len(t) + 1) = t \o <<SEP>>)

\* /bin/mkdir -p p: fails when a file is in the way, else creates what is
\* missing.
mkdir_p(p, fs) ==
    IF \E a \in Ancestors(p) : [path |-> a, kind |-> "file"] \in fs
    THEN [fs |-> fs, status |-> 1]
    ELSE [fs |-> fs \cup {[path |-> a, kind |-> "dir"] : a \in Ancestors(p)},
          status |-> 0]

\* /bin/rm -rf t: removes the entry named t and all below it; a missing t
\* is no error.
rm_rf(t, fs) ==
    [fs |-> {n \in fs : ~Under(n.path, t)}, status |-> 0]

\* The effect of a file-system command on the tree fs.
Execute(cmd, fs) ==
    IF cmd[1] = S("/bin/mkdir") THEN mkdir_p(cmd[3].chars, fs)
    ELSE rm_rf(cmd[3].chars, fs)

DirIsDir(fs, p) == [path |-> p, kind |-> "dir"] \in fs
DirEntries(fs, p) == {n \in fs : dirname(n.path) = p}

DirIdle ==
    /\ dfs = {}
    /\ dpath = <<>>
    /\ dpc = "off"
    /\ dcalls = 0
    /\ dfailed = FALSE

\* ------------------------------------------- get_files on its own

Roots ==
    {C_test, join(C_test, C_test_a_py), join(C_test, C_helper_py),
     join(C_test, C_sub), join(C_test, C_a_pyc), C_nosuch, C_pympler,
     join(C_pympler, C_n_py_nl)}

RootLists == UNION {[1..n -> Roots] : n \in 0..MaxRoots}

FilesIdle ==
    /\ locations = <<>>
    /\ pattern = PatPy
    /\ res = <<>>
    /\ fpc = "off"

\* ------------------------------------------------------------------- main

_Python_path == "python"
_Sphinx_path == "sphinx-build"

\* os.path.abspath(os.path.dirname(sys.argv[0])) and the doc directory in it.
project_path == "/project"
doc_path == project_path \o "/doc"

Flags ==
    {"all", "changes", "doctest", "html", "latex", "linkcheck", "pychecker",
     "OKd", "test"}

\* The order in which main() tests the flags.
TaskOrder ==
    <<"pychecker", "changes", "doctest", "html", "latex", "linkcheck", "test">>

NoTask == Len(TaskOrder) + 1

\* The Sphinx builder each documentation task names.
Builder(t) ==
    CASE t = "changes" -> C_changes
      [] t = "doctest" -> C_doctest
      [] t = "html" -> C_html
      [] t = "latex" -> C_latex
      [] t = "linkcheck" -> C_linkcheck

Headline(t) ==
    CASE t = "pychecker" -> "Running pychecker"
      [] t = "changes" -> "Creating documentation changes"
      [] t = "doctest" -> "Running doctest"
      [] t = "html" -> "Creating HTML documention"
      [] t = "latex" -> "Creating LaTex (PDF) documention"
      [] t = "linkcheck" -> "Checking documention links"
      [] t = "test" -> "Running unittests"

\* A verbosity: the int 2 of the default, or the string the command line
\* gave (val is the number its text spells).
IntV(n) == [type |-> "int", val |-> n]
StrV(n) == [type |-> "str", val |-> n]
Spelled(text) == CASE text = "0" -> 0 [] text = "1" -> 1 [] text = "2" -> 2

\* str(verbose)
str(v) == CASE v.val = 0 -> "0" [] v.val = 1 -> "1" [] v.val = 2 -> "2"

\* parser.parse_args(): -v has no type, so optparse stores its text.
parse_args(a) ==
    [all |-> "all" \in a.flags,
     changes |-> "changes" \in a.flags,
     doctest |-> "doctest" \in a.flags,
     html |-> "html" \in a.flags,
     latex |-> "latex" \in a.flags,
     paper |-> IF a.paper = "" THEN "letter" ELSE a.paper,
     linkcheck |-> "linkcheck" \in a.flags,
     pychecker |-> "pychecker" \in a.flags,
     OKd |-> "OKd" \in a.flags,
     V |-> IF a.V = "" THEN IntV(2) ELSE StrV(Spelled(a.V)),
     test |-> "test" \in a.flags]

\* if options.all: ...
expand_all_without_doctest(o) ==
    IF o.all
    THEN [o EXCEPT !.html = TRUE, !.test = TRUE, !.pychecker = TRUE]
    ELSE o
expand_all(o) ==
    IF o.all
    THEN [o EXCEPT !.html = TRUE, !.doctest = TRUE, !.test = TRUE,
                   !.pychecker = TRUE]
    ELSE o

\* verbose > 0: an int compares by value; a str against an int is greater
\* under Python 2 and raises TypeError under Python 3.
Positive(verbose, py) ==
    IF verbose.type = "int"
    THEN (IF verbose.val > 0 THEN "True" ELSE "False")
    ELSE IF py = 2 THEN "True" ELSE "TypeError"

Line(by, text) == [by |-> by, text |-> text, underline |-> 0]

\* print2(text, verbose): the lines it prints; the third is '=' * len(text).
print2(text, verbose, py) ==
    LET p == Positive(verbose, py)
    IN  [raised |-> p = "TypeError",
         lines |-> IF p = "True"
                   THEN <<Line("print2", "")>>
                        \o (IF text # ""
                            THEN <<Line("print2", text),
                                   [by |-> "print2", text |-> "=",
                                    underline |-> Len(text)]>>
                            ELSE <<>>)
                   ELSE <<>>]

\* args or ['pympler'], args or ['test']
pychecker_dirs_default(a) == <<C_pympler>>
pychecker_dirs(a) == IF a # <<>> THEN a ELSE <<C_pympler>>
unittest_dirs(a) == IF a # <<>> THEN a ELSE <<C_test>>

\* no_OKd = {False: '-no-OKd', True: '--'}[OKd]
no_OKd_swapped(OKd) == IF OKd THEN "-no-OKd" ELSE "--"
no_OKd(OKd) == IF OKd THEN "--" ELSE "-no-OKd"

\* The command line run_pychecker spawns for one source file.
pychok_command(OKd, src) ==
    <<S(_Python_path), S("tools/pychok.py"), S(no_OKd(OKd)), S("--stdlib"),
      S("--quiet"), W(src)>>

\* The command line run_unittests spawns.
unittest_command(dirs, verbose) ==
    <<S(_Python_path), W(join(C_test, C_runtest_py)), S("-verbose"),
      S(str(verbose))>>
    \o [k \in 1..Len(dirs) |-> W(dirs[k])]

\* The five command lines run_sphinx spawns for one builder.
sphinx_commands(builder, paper) ==
    LET doctrees == join(C_build, C_doctrees)
        dir == join(C_build, builder)
        opts == <<S("-d"), W(doctrees)>>
                \o (IF paper # ""
                    THEN <<S("-D"), S("latex_paper_size=" \o paper)>>
                    ELSE <<>>)
                \o <<S("source"), W(dir)>>
    IN  dir_clear(dir) \o dir_clear(doctrees)
        \o << <<S(_Sphinx_path), S("-b"), W(builder)>> \o opts >>

\* _call(args) raises OSError when the program cannot be started.
CannotStart(cmd) == cmd[1] = S(_Sphinx_path) /\ ~sphinx_installed

\* _call(args) returns only when the subprocess has terminated: while one
\* runs, the script stands still.
NeverBlocked == FALSE
Blocked == running # {}

\* The exit status of a script whose main() returned.
exit_status_of_children(failed) == IF failed THEN 1 ELSE 0
exit_status(failed) == 0

Last(s) == s[Len(s)]

\* What _spawn(*cmd) leaves behind: one more subprocess, started with the
\* environment env.
Spawn(cmd, env) ==
    /\ spawned' = Append(spawned,
                         [runner |-> TaskOrder[task], argv |-> cmd,
                          env |-> env, cwd |-> cwd])
    /\ running' = running \cup {Len(spawned) + 1}

\* An uncaught exception ends the script.
Raise(e) ==
    /\ pc' = "aborted"
    /\ exc' = e
    /\ exit' = 1

inputs == <<python, sphinx_installed, argv, listing>>

\* The command lines tried: every set of flags, with -v absent or "-v 0",
\* --paper absent, and no or two positional arguments.
Verbosities == {"", "0"}
Papers == {""}
ArgLists == {<<>>, <<C_pkg, join(C_test, C_sub)>>}

MainIdle ==
    /\ python = 2
    /\ sphinx_installed = TRUE
    /\ argv = [flags |-> {}, V |-> "", paper |-> "", args |-> <<>>]
    /\ options = parse_args(argv)
    /\ args = <<>>
    /\ pc = "off"
    /\ task = 0
    /\ sources = <<>>
    /\ idx = 0
    /\ step = 0
    /\ saved_cwd = ""
    /\ cwd = project_path
    /\ environ = ""
    /\ running = {}
    /\ spawned = <<>>
    /\ child_failed = FALSE
    /\ calls = <<>>
    /\ out = <<>>
    /\ exc = "none"
    /\ exit = -1

Init ==
    /\ python \in {2, 3}
    /\ sphinx_installed \in BOOLEAN
    /\ argv \in [flags : SUBSET Flags, V : Verbosities, paper : Papers,
                 args : ArgLists]
    /\ listing = "forward"
    /\ options = parse_args([flags |-> {}, V |-> "", paper |-> "", args |-> <<>>])
    /\ args = <<>>
    /\ pc = "parse"
    /\ task = 0
    /\ sources = <<>>
    /\ idx = 0
    /\ step = 0
    /\ saved_cwd = ""
    /\ cwd = project_path
    /\ environ = ""
    /\ running = {}
    /\ spawned = <<>>
    /\ child_failed = FALSE
    /\ calls = <<>>
    /\ out = <<>>
    /\ exc = "none"
    /\ exit = -1
    /\ FilesIdle
    /\ DirIdle

\* (options, args) = parser.parse_args()
ParseArgs ==
    /\ pc = "parse"
    /\ options' = parse_args(argv)
    /\ args' = argv.args
    /\ pc' = "expand"
    /\ UNCHANGED <<inputs, task, sources, idx, step, saved_cwd, cwd, environ,
                   running, spawned, child_failed, calls, out, exc, exit,
                   locations, pattern, res, fpc, dvars>>

\* if options.all: ...
ExpandAll ==
    /\ pc = "expand"
    /\ options' = expand_all(options)
    /\ pc' = "dispatch"
    /\ task' = 1
    /\ UNCHANGED <<inputs, args, sources, idx, step, saved_cwd, cwd, environ,
                   running, spawned, child_failed, calls, out, exc, exit,
                   locations, pattern, res, fpc, dvars>>

\* if options.<task>: is false.
SkipTask ==
    /\ pc = "dispatch"
    /\ task < NoTask
    /\ ~Blocked
    /\ ~options[TaskOrder[task]]
    /\ task' = task + 1
    /\ UNCHANGED <<inputs, options, args, pc, sources, idx, step, saved_cwd,
                   cwd, environ, running, spawned, child_failed, calls, out,
                   exc, exit, locations, pattern, res, fpc, dvars>>

\* if options.<task>: print2(<headline>, options.V)
PrintHeadline ==
    /\ pc = "dispatch"
    /\ task < NoTask
    /\ ~Blocked
    /\ options[TaskOrder[task]]
    /\ LET p == print2(Headline(TaskOrder[task]), options.V, python)
       IN  IF p.raised
           THEN Raise("TypeError") /\ UNCHANGED out
           ELSE /\ out' = out \o p.lines
                /\ pc' = "call"
                /\ UNCHANGED <<exc, exit>>
    /\ UNCHANGED <<inputs, options, args, task, sources, idx, step, saved_cwd,
                   cwd, environ, running, spawned, child_failed, calls,
                   locations, pattern, res, fpc, dvars>>

\* run_pychecker(args or ['pympler'], options.OKd, options.V): up to the loop.
CallPychecker ==
    /\ pc = "call"
    /\ TaskOrder[task] = "pychecker"
    /\ LET dirs == pychecker_dirs(args)
       IN  /\ calls' = Append(calls,
                              [name |-> "run_pychecker", task |-> TaskOrder[task],
                               dirs |-> dirs,
                               OKd |-> options.OKd, verbose |-> options.V,
                               builders |-> <<>>, paper |-> ""])
           /\ sources' = get_files(dirs, PatPy, listing)
    /\ idx' = 1
    /\ pc' = "pychecker"
    /\ UNCHANGED <<inputs, options, args, task, step, saved_cwd, cwd, environ,
                   running, spawned, child_failed, out, exc, exit,
                   locations, pattern, res, fpc, dvars>>

\* for src in sources: one pass of the loop.
PycheckerStep ==
    /\ pc = "pychecker"
    /\ ~Blocked
    /\ idx <= Len(sources)
    /\ LET p == Positive(Last(calls).verbose, python)
       IN  IF p = "TypeError"
           THEN /\ Raise("TypeError")
                /\ UNCHANGED <<out, spawned, running, idx>>
           ELSE /\ out' = IF p = "True"
                          THEN Append(out, [by |-> "run_pychecker",
                                            text |-> "CHECKING",
                                            underline |-> 0])
                          ELSE out
                /\ Spawn(pychok_command(Last(calls).OKd, sources[idx]), environ)
                /\ idx' = idx + 1
                /\ UNCHANGED <<pc, exc, exit>>
    /\ UNCHANGED <<inputs, options, args, task, sources, step, saved_cwd, cwd,
                   environ, child_failed, calls, locations, pattern, res, fpc,
                   dvars>>

\* run_pychecker returns.
PycheckerReturn ==
    /\ pc = "pychecker"
    /\ ~Blocked
    /\ idx > Len(sources)
    /\ pc' = "dispatch"
    /\ task' = task + 1
    /\ sources' = <<>>
    /\ idx' = 0
    /\ UNCHANGED <<inputs, options, args, step, saved_cwd, cwd, environ,
                   running, spawned, child_failed, calls, out, exc, exit,
                   locations, pattern, res, fpc, dvars>>

\* run_sphinx(doc_path, [<builder>]) or, for latex, with paper=options.paper:
\* up to the loop.
CallSphinx ==
    /\ pc = "call"
    /\ TaskOrder[task] \in {"changes", "doctest", "html", "latex", "linkcheck"}
    /\ calls' = Append(calls,
                       [name |-> "run_sphinx", task |-> TaskOrder[task],
                        dirs |-> <<>>, OKd |-> FALSE,
                        verbose |-> IntV(0),
                        builders |-> <<Builder(TaskOrder[task])>>,
                        paper |-> IF TaskOrder[task] = "latex"
                                  THEN options.paper ELSE ""])
    /\ saved_cwd' = cwd
    /\ cwd' = doc_path
    /\ idx' = 1
    /\ step' = 1
    /\ pc' = "sphinx"
    /\ UNCHANGED <<inputs, options, args, task, sources, environ, running,
                   spawned, child_failed, out, exc, exit, locations, pattern,
                   res, fpc, dvars>>

\* for builder in builders: the next _spawn of the loop body.
SphinxStep ==
    /\ pc = "sphinx"
    /\ ~Blocked
    /\ idx <= Len(Last(calls).builders)
    /\ LET cmds == sphinx_commands(Last(calls).builders[idx], Last(calls).paper)
       IN  IF CannotStart(cmds[step])
           THEN /\ Raise("OSError")
                /\ UNCHANGED <<spawned, running, idx, step>>
           ELSE /\ Spawn(cmds[step], environ)
                /\ IF step < Len(cmds)
                   THEN step' = step + 1 /\ UNCHANGED idx
                   ELSE step' = 1 /\ idx' = idx + 1
                /\ UNCHANGED <<pc, exc, exit>>
    /\ UNCHANGED <<inputs, options, args, task, sources, saved_cwd, cwd,
                   environ, child_failed, calls, out, locations, pattern, res,
                   fpc, dvars>>

\* os.chdir(cwd) and run_sphinx returns.
SphinxReturn ==
    /\ pc = "sphinx"
    /\ ~Blocked
    /\ idx > Len(Last(calls).builders)
    /\ cwd' = saved_cwd
    /\ pc' = "dispatch"
    /\ task' = task + 1
    /\ idx' = 0
    /\ step' = 0
    /\ UNCHANGED <<inputs, options, args, sources, saved_cwd, environ,
                   running, spawned, child_failed, calls, out, exc, exit,
                   locations, pattern, res, fpc, dvars>>

\* run_unittests(project_path, args or ['test'], options.V)
CallUnittests ==
    /\ pc = "call"
    /\ TaskOrder[task] = "test"
    /\ LET dirs == unittest_dirs(args)
       IN  /\ calls' = Append(calls,
                              [name |-> "run_unittests", task |-> TaskOrder[task],
                               dirs |-> dirs,
                               OKd |-> FALSE, verbose |-> options.V,
                               builders |-> <<>>, paper |-> ""])
           /\ environ' = project_path
           /\ Spawn(unittest_command(dirs, options.V), project_path)
    /\ pc' = "dispatch"
    /\ task' = task + 1
    /\ UNCHANGED <<inputs, options, args, sources, idx, step, saved_cwd, cwd,
                   child_failed, out, exc, exit, locations, pattern, res, fpc,
                   dvars>>

\* A subprocess terminates, with a zero or a non-zero status.
ChildExit ==
    /\ \E c \in running, status \in {0, 1} :
          /\ running' = running \ {c}
          /\ child_failed' = (child_failed \/ status # 0)
    /\ UNCHANGED <<inputs, options, args, pc, task, sources, idx, step,
                   saved_cwd, cwd, environ, spawned, calls, out, exc, exit,
                   locations, pattern, res, fpc, dvars>>

\* main() returns and the interpreter exits.
Finish ==
    /\ pc = "dispatch"
    /\ task = NoTask
    /\ ~Blocked
    /\ pc' = "done"
    /\ exit' = exit_status(child_failed)
    /\ UNCHANGED <<inputs, options, args, task, sources, idx, step, saved_cwd,
                   cwd, environ, running, spawned, child_failed, calls, out,
                   exc, locations, pattern, res, fpc, dvars>>

Next ==
    \/ ParseArgs
    \/ ExpandAll
    \/ SkipTask
    \/ PrintHeadline
    \/ CallPychecker
    \/ PycheckerStep
    \/ PycheckerReturn
    \/ CallSphinx
    \/ SphinxStep
    \/ SphinxReturn
    \/ CallUnittests
    \/ ChildExit
    \/ Finish

Spec == Init /\ [][Next]_vars

FilesInit ==
    /\ locations \in RootLists
    /\ pattern \in Patterns
    /\ listing \in Orders
    /\ res = <<>>
    /\ fpc = "call"
    /\ DirIdle
    /\ MainIdle

CallGetFiles ==
    /\ fpc = "call"
    /\ res' = get_files(locations, pattern, listing)
    /\ fpc' = "returned"
    /\ UNCHANGED <<locations, pattern, listing, dvars, mvars>>

FilesNext == CallGetFiles

SpecFiles == FilesInit /\ [][FilesNext]_vars

\* ------------------------------------------- dir_clear on its own

\* The trees the documentation directory can hold before dir_clear runs:
\* every parent-closed set of these nodes.
DocNodes ==
    { [path |-> C_build, kind |-> "dir"],
      [path |-> join(C_build, C_html), kind |-> "dir"],
      [path |-> join(join(C_build, C_html), <<"f">>), kind |-> "file"],
      [path |-> join(join(C_build, C_html), C_star), kind |-> "file"],
      [path |-> join(join(C_build, C_html), C_sub), kind |-> "dir"],
      [path |-> join(join(join(C_build, C_html), C_sub), <<"g">>), kind |-> "file"],
      [path |-> join(C_build, C_doctrees), kind |-> "dir"],
      [path |-> join(join(C_build, C_doctrees), <<"e">>), kind |-> "file"] }

ParentClosed(fs) ==
    \A n \in fs : dirname(n.path) # <<>> =>
        [path |-> dirname(n.path), kind |-> "dir"] \in fs

DocTrees == {fs \in SUBSET DocNodes : ParentClosed(fs)}

DirInit ==
    /\ dfs \in DocTrees
    /\ dpath \in {join(C_build, C_html), join(C_build, C_doctrees)}
    /\ dpc = "mkdir"
    /\ dcalls = 1
    /\ dfailed = FALSE
    /\ FilesIdle
    /\ listing = "forward"
    /\ MainIdle

\* _spawn('/bin/mkdir', '-p', path)
DirClearMkdir ==
    /\ dpc = "mkdir"
    /\ LET r == Execute(dir_clear(dpath)[1], dfs)
       IN  /\ dfs' = r.fs
           /\ dfailed' = (dfailed \/ r.status # 0)
    /\ dpc' = "rm"
    /\ UNCHANGED <<dpath, dcalls, fvars, mvars>>

\* _spawn('/bin/rm', '-rf', os.path.join(path, '*'))
DirClearRm ==
    /\ dpc = "rm"
    /\ LET r == Execute(dir_clear(dpath)[2], dfs)
       IN  /\ dfs' = r.fs
           /\ dfailed' = (dfailed \/ r.status # 0)
    /\ dpc' = "returned"
    /\ UNCHANGED <<dpath, dcalls, fvars, mvars>>

\* dir_clear is invoked a second time on the same path.
DirClearAgain ==
    /\ dpc = "returned"
    /\ dcalls = 1
    /\ dcalls' = 2
    /\ dpc' = "mkdir"
    /\ UNCHANGED <<dfs, dpath, dfailed, fvars, mvars>>

DirNext == DirClearMkdir \/ DirClearRm \/ DirClearAgain

SpecDir == DirInit /\ [][DirNext]_vars

\* ------------------------------------------------------------ properties

IsPrefix(s, t) == Len(s) <= Len(t) /\ \A k \in 1..Len(s) : s[k] = t[k]
Count(s, x) == Cardinality({k \in 1..Len(s) : s[k] = x})
Parsed == pc \notin {"off", "parse", "expand"}

\* The tasks whose runner has been called, in call order.
StartedTasks == [k \in 1..Len(calls) |-> calls[k].task]

\* The tasks whose flag is set once the options are final, in main()'s order.
EnabledTasks ==
    LET On(t) == options[t]
    IN  SelectSeq(TaskOrder, On)

\* The command lines started so far, in order.
SpawnedCommands == [k \in 1..Len(spawned) |-> spawned[k].argv]

\* C1 as amended: after parsing with --all given, the pychecker, html,
\* doctest and test flags are all set, and each of the latex, linkcheck and
\* changes flags is set exactly when it was given on the command line.
C1_AllExpansion ==
    (Parsed /\ "all" \in argv.flags) =>
        /\ options.pychecker /\ options.html /\ options.doctest /\ options.test
        /\ \A f \in {"latex", "linkcheck", "changes"} :
              options[f] = (f \in argv.flags)

\* C1 as stated: --all sets pychecker, html and test, and doctest, latex,
\* linkcheck and changes are set only if given explicitly.
C1_Original ==
    (Parsed /\ "all" \in argv.flags) =>
        /\ options.pychecker /\ options.html /\ options.test
        /\ \A f \in {"doctest", "latex", "linkcheck", "changes"} :
              options[f] => f \in argv.flags

\* --all alone has run to its end and the doctest builder was run.
C1_Witness ==
    /\ pc = "done"
    /\ argv.flags = {"all"}
    /\ StartedTasks = <<"pychecker", "doctest", "html", "test">>

\* C2: once dir_clear(path) has returned, on the first call and on the
\* second, path is a directory without entries and no subprocess failed.
C2_DirClearEmpties ==
    dpc = "returned" =>
        /\ DirIsDir(dfs, dpath)
        /\ DirEntries(dfs, dpath) = {}
        /\ ~dfailed

\* C3 as amended: every path get_files returns has a base name that the
\* pattern matches from its first character on (re.match); the match is
\* against the base name only, and under the script's own two patterns,
\* '^test_[^\n]*.py$' and '[^\n]*.py$', it covers the whole base name
\* unless the base name ends in a newline.
C3_BasenameMatches ==
    fpc = "returned" =>
        \A k \in 1..Len(res) :
            LET fn == basename(res[k])
            IN  /\ match(pattern, fn)
                /\ (pattern \in {PatTest, PatPy} /\ Last(fn) # NL)
                      => fullmatch(pattern, fn)

\* C3 as stated: every path get_files returns has a base name that the
\* pattern matches in full, first to last character.
C3_Original ==
    fpc = "returned" =>
        \A k \in 1..Len(res) : fullmatch(pattern, basename(res[k]))

\* get_files returned a file root and a walked file, and the base name of
\* one of them is matched by the pattern without being matched in full.
C3_Witness ==
    /\ fpc = "returned"
    /\ \E k \in 1..Len(res) : \E m \in 1..Len(locations) : res[k] = locations[m]
    /\ \E k \in 1..Len(res) :
          /\ \A m \in 1..Len(locations) : res[k] # locations[m]
          /\ ~fullmatch(pattern, basename(res[k]))

\* The roots that are files whose base name the pattern matches.
MatchingFileRoots ==
    {locations[k] : k \in {m \in 1..Len(locations) :
                              /\ isfile(locations[m])
                              /\ match(pattern, basename(locations[m]))}}

\* Some directory root of the list holds r.
Overlapped(r) ==
    \E k \in 1..Len(locations) :
        isdir(locations[k]) /\ Under(r, locations[k])

\* C4: the runners called are those of the set flags, in the order
\* pychecker, changes, doctest, html, latex, linkcheck, test: a prefix of
\* them while the script runs (or once an exception ended it), all of them
\* when main() has returned; and a subprocess that has not terminated
\* belongs to the runner called last, so no runner starts before the
\* subprocesses of the one before it have terminated.
C4_DispatchOrder ==
    Parsed =>
        /\ IsPrefix(StartedTasks, EnabledTasks)
        /\ pc = "done" => StartedTasks = EnabledTasks
        /\ \A c \in running :
              calls # <<>> /\ spawned[c].runner = Last(calls).task

\* All seven runners ran, in order, and main() returned.
C4_Witness ==
    /\ pc = "done"
    /\ StartedTasks = TaskOrder

\* The command lines the final options ask for, whatever the subprocesses
\* return.
ExpectedOf(t) ==
    CASE t = "pychecker" ->
            LET srcs == get_files(pychecker_dirs(args), PatPy, listing)
            IN  [k \in 1..Len(srcs) |-> pychok_command(options.OKd, srcs[k])]
      [] t = "test" -> <<unittest_command(unittest_dirs(args), options.V)>>
      [] OTHER ->
            sphinx_commands(Builder(t),
                            IF t = "latex" THEN options.paper ELSE "")

ExpectedCommands ==
    LET en == EnabledTasks
    IN  Concat([k \in 1..Len(en) |-> ExpectedOf(en[k])])

\* C5: when main() has returned, every command line of every set task was
\* started, whatever statuses the subprocesses returned, and the exit status
\* is 0; the script ends early only by an exception of its own (a program
\* that cannot be started, the TypeError of a str verbosity), never by a
\* status.
C5_ChildFailuresIgnored ==
    /\ pc = "done" => (exit = 0 /\ SpawnedCommands = ExpectedCommands)
    /\ pc = "aborted" =>
          \/ exc = "OSError" /\ ~sphinx_installed
          \/ exc = "TypeError" /\ python = 3 /\ argv.V # ""

\* main() returned after a subprocess had returned non-zero, with three or
\* more runners called.
C5_Witness ==
    /\ pc = "done"
    /\ child_failed
    /\ Len(calls) >= 3
    /\ Len(spawned) > Len(calls)

\* run_sphinx has been left, by its return or by an exception.
SphinxLeft ==
    /\ \E k \in 1..Len(calls) : calls[k].name = "run_sphinx"
    /\ pc # "sphinx"

\* C6: whenever run_sphinx has been left, by return or by exception, the
\* working directory is the one it was entered with.
C6_CwdRestored == SphinxLeft => cwd = saved_cwd

\* C7: with --all and -v 0, print2 prints no line, and the pychecker, html
\* and test runners are still called: no exception of the verbosity test
\* ends the script, and when main() has returned the three were called.
C7_Verbosity0Silent ==
    (Parsed /\ "all" \in argv.flags /\ argv.V = "0") =>
        /\ \A k \in 1..Len(out) : out[k].by # "print2"
        /\ exc # "TypeError"
        /\ pc = "done" =>
              {"pychecker", "html", "test"} \subseteq
                  {StartedTasks[k] : k \in 1..Len(StartedTasks)}

\* C8 as amended: a root that is a file whose base name the pattern matches
\* is in the result, as the string that was passed in, and it is there
\* exactly once when it is listed once and no directory root of the list
\* holds it.
C8_FileRootVerbatim ==
    fpc = "returned" =>
        \A r \in MatchingFileRoots :
            /\ Count(res, r) >= 1
            /\ (Count(locations, r) = 1 /\ ~Overlapped(r)) => Count(res, r) = 1

\* C8 as stated: such a root is in the result exactly once, also when the
\* list holds other roots.
C8_Original ==
    fpc = "returned" => \A r \in MatchingFileRoots : Count(res, r) = 1

\* A matching file root listed beside a directory that does not hold it:
\* the result has the root once and the directory's files as well.
C8_Witness ==
    /\ fpc = "returned"
    /\ Len(locations) = 2
    /\ \E r \in MatchingFileRoots :
          /\ ~Overlapped(r)
          /\ Count(res, r) = 1
          /\ Len(res) > 1

\* The command lines run_pychecker started.
PycheckerCommands ==
    LET Mine(e) == e.runner = "pychecker"
        es == SelectSeq(spawned, Mine)
    IN  [k \in 1..Len(es) |-> es[k].argv]

\* One command line per file of File Discovery, as the claim words it.
PycheckerExpected(call) ==
    LET srcs == get_files(call.dirs, PatPy, listing)
    IN  [k \in 1..Len(srcs) |->
            <<S("python"), S("tools/pychok.py"),
              S(IF call.OKd THEN "--" ELSE "-no-OKd"), S("--stdlib"),
              S("--quiet"), W(srcs[k])>>]

\* C9: when run_pychecker has returned it has started exactly one
\* subprocess per path that get_files returns for '[^\n]*.py$', in that
\* order, each as (python, tools/pychok.py, F, --stdlib, --quiet, path) with
\* F = '--' when OKd and '-no-OKd' otherwise; while it runs it has started a
\* prefix of them.
C9_OnePerFile ==
    /\ (pc = "dispatch" /\ calls # <<>> /\ Last(calls).name = "run_pychecker")
          => PycheckerCommands = PycheckerExpected(Last(calls))
    /\ pc = "pychecker"
          => IsPrefix(PycheckerCommands, PycheckerExpected(Last(calls)))

\* run_pychecker returned with OKd set, after two or more subprocesses, one
\* of which returned non-zero.
C9_Witness ==
    /\ pc = "dispatch"
    /\ calls # <<>>
    /\ Last(calls).name = "run_pychecker"
    /\ Last(calls).OKd
    /\ child_failed
    /\ Len(spawned) >= 2

\* C10: run_pychecker and run_unittests are called with the positional
\* arguments when there are any, and with ['pympler'] and ['test'] when
\* there are none; the test harness is started as (python, test/runtest.py,
\* -verbose, <verbosity>, <dirs>...) with PYTHONPATH set to the project
\* root, which for --test alone is -verbose 2 test; no word of a Sphinx
\* runner's command lines is a positional argument.
C10_PositionalArgs ==
    /\ \A k \in 1..Len(calls) :
          /\ calls[k].name = "run_pychecker" =>
                calls[k].dirs =
                    IF argv.args # <<>> THEN argv.args ELSE <<C_pympler>>
          /\ calls[k].name = "run_unittests" =>
                calls[k].dirs =
                    IF argv.args # <<>> THEN argv.args ELSE <<C_test>>
    /\ \A k \in 1..Len(spawned) :
          /\ spawned[k].runner = "test" =>
                /\ spawned[k].env = project_path
                /\ SubSeq(spawned[k].argv, 5, Len(spawned[k].argv)) =
                      [m \in 1..Len(Last(calls).dirs) |-> W(Last(calls).dirs[m])]
          /\ spawned[k].runner \notin {"pychecker", "test"} =>
                \A m \in 1..Len(spawned[k].argv) :
                    \A n \in 1..Len(argv.args) :
                        spawned[k].argv[m] # W(argv.args[n])
    /\ (pc = "done" /\ argv.flags = {"test"} /\ argv.V = "" /\ argv.args = <<>>)
          => spawned =
                <<[runner |-> "test",
                   argv |-> <<S("python"), W(join(C_test, C_runtest_py)),
                              S("-verbose"), S("2"), W(C_test)>>,
                   env |-> project_path, cwd |-> project_path]>>

\* Positional arguments were given, and the pychecker, a Sphinx and the
\* test runner were all called before main() returned.
C10_Witness ==
    /\ pc = "done"
    /\ argv.args # <<>>
    /\ \E k \in 1..Len(calls) : calls[k].name = "run_pychecker"
    /\ \E k \in 1..Len(calls) : calls[k].name = "run_sphinx"
    /\ \E k \in 1..Len(calls) : calls[k].name = "run_unittests"
====
